---- MODULE Spec2Model ----
(***************************************************************************)
(* State-machine model of app/tunnel/controller.py (TunnelController).     *)
(*                                                                         *)
(* One request at a time is served: Invoke picks a view handler and the    *)
(* user parameters, and the handler's statements then run in order.  A     *)
(* raised exception ends the request in pc = "failed" with err naming the  *)
(* exception class.                                                        *)
(*                                                                         *)
(* Python floats are modelled as exact rationals <<num, den>> in lowest    *)
(* terms, so rounding is not modelled.                                     *)
(***************************************************************************)
EXTENDS Integers, Sequences, FiniteSets, TLC

(***************************************************************************)
(* Bounds of the model.                                                    *)
(***************************************************************************)
MaxSegments == 4
MaxSections == 3

(***************************************************************************)
(* Program constants.                                                      *)
(***************************************************************************)
ParallelOffset == 40
ExecuteTimeout == 600
LoadFactor == -1000

(***************************************************************************)
(* Rational arithmetic standing for Python float arithmetic.               *)
(***************************************************************************)
RECURSIVE GCD(_, _)
GCD(a, b) == IF b = 0 THEN a ELSE GCD(b, a % b)

Abs(a) == IF a < 0 THEN -a ELSE a

Norm(n, d) ==
    LET s == IF d < 0 THEN -1 ELSE 1
        g == GCD(Abs(n), Abs(d))
    IN  <<(s * n) \div g, (s * d) \div g>>

Rat(n) == <<n, 1>>
RAdd(a, b) == Norm(a[1] * b[2] + b[1] * a[2], a[2] * b[2])
RSub(a, b) == Norm(a[1] * b[2] - b[1] * a[2], a[2] * b[2])
RMul(a, b) == Norm(a[1] * b[1], a[2] * b[2])
RDiv(a, b) == Norm(a[1] * b[2], a[2] * b[1])
RLt(a, b) == a[1] * b[2] < b[1] * a[2]
RLe(a, b) == a[1] * b[2] <= b[1] * a[2]
RMin(a, b) == IF RLe(a, b) THEN a ELSE b
RMax(a, b) == IF RLe(a, b) THEN b ELSE a

(***************************************************************************)
(* f-string formatting of a non-negative int.                              *)
(***************************************************************************)
Digits == <<"0", "1", "2", "3", "4", "5", "6", "7", "8", "9">>

RECURSIVE IntToStr(_)
IntToStr(n) ==
    IF n < 10 THEN Digits[n + 1]
    ELSE IntToStr(n \div 10) \o Digits[(n % 10) + 1]

(***************************************************************************)
(* User input.  A polyline is its sequence of projected (RD) points; the   *)
(* empty sequence stands for "no polyline drawn" (None).  The drawn        *)
(* polylines have axis-parallel legs, so that lengths are integers.        *)
(***************************************************************************)
None == <<>>

Polylines ==
    { <<<<0, 0>>, <<3, 0>>, <<3, 4>>>>,
      <<<<0, 0>>, <<100, 0>>>> }

SegmentCounts == 0 .. MaxSegments
SectionCounts == (-2) .. MaxSections
WidthValues == {0, 1, 10}
HeightValues == {5}
FloorThicknessValues == {0, 1}
RoofThicknessValues == {0, 1}
WallThicknessValues == {0, 1, 2}
SoilStiffnessValues == {400}
RoofLoadValues == {-2, 5}

Step1 == [geo_polyline : Polylines \cup {None}, segments : SegmentCounts]

Step2 ==
    [width : WidthValues, height : HeightValues,
     floor_thickness : FloorThicknessValues,
     roof_thickness : RoofThicknessValues,
     wall_thickness : WallThicknessValues,
     number_of_sections : SectionCounts]

Step3 == [soil_stiffness : SoilStiffnessValues, roof_load : RoofLoadValues]

\* The form's state when only the first step has been filled in.
DefaultStep2 ==
    [width |-> 10, height |-> 5, floor_thickness |-> 1, roof_thickness |-> 1,
     wall_thickness |-> 1, number_of_sections |-> 2]

DefaultStep3 == [soil_stiffness |-> 400, roof_load |-> 5]

(***************************************************************************)
(* shapely LineString.length of a polyline with axis-parallel legs.        *)
(***************************************************************************)
RECURSIVE LineStringLength(_)
LineStringLength(pts) ==
    IF Len(pts) < 2 THEN 0
    ELSE Abs(pts[2][1] - pts[1][1]) + Abs(pts[2][2] - pts[1][2])
         + LineStringLength(Tail(pts))

(***************************************************************************)
(* shapely.ops.substring by arc length: the piece of the line between the  *)
(* two distances, each clamped to the line.                                *)
(***************************************************************************)
Clamp(d, L) == RMax(Rat(0), RMin(d, Rat(L)))
Substring(L, begin, end) == [from |-> Clamp(begin, L), to |-> Clamp(end, L)]

(***************************************************************************)
(* numpy.linspace(start, stop, num) with endpoint=True, for num >= 0.      *)
(***************************************************************************)
Linspace(start, stop, num) ==
    LET div == num - 1
        delta == RSub(stop, start)
        mult == IF div > 0 THEN RDiv(delta, Rat(div)) ELSE delta
    IN  [k \in 1 .. num |->
            IF num > 1 /\ k = num THEN stop
            ELSE RAdd(RMul(Rat(k - 1), mult), start)]

(***************************************************************************)
(* Program state.                                                          *)
(***************************************************************************)
VARIABLES
    pc,                        \* position of the running handler
    handler,                   \* the view method serving the request
    params,                    \* the request's parameters
    err,                       \* class of the exception that ended the request
    result,                    \* value returned to the framework
    features, i,               \* visualize_tunnel locals
    model, length, floor_plane, roof_plane,
    sections_x, section_id, lc, force,      \* create_scia_model locals
    scia_model,                \* the model as returned to the caller
    geometry_group,            \* create_visualization_geometries local
    geometry_group_structure,  \* create_structure_visualization local
    scia_analysis              \* the SciaAnalysis object and its worker calls

vars ==
    <<pc, handler, params, err, result, features, i, model, length,
      floor_plane, roof_plane, sections_x, section_id, lc, force, scia_model,
      geometry_group, geometry_group_structure, scia_analysis>>

NoResult == [type |-> "None"]
NoModel == [type |-> "None"]
NoPlane == [type |-> "None"]
NoGroup == [type |-> "None"]
NoAnalysis == [type |-> "None"]
NoLoadCase == [type |-> "None"]
NoFloat == <<0, 0>>

Handlers ==
    {"visualize_tunnel", "visualize_tunnel_segment",
     "visualize_tunnel_structure", "execute_scia_analysis"}

Init ==
    /\ pc = "idle"
    /\ handler = "none"
    /\ params = [step1 |-> [geo_polyline |-> None, segments |-> 1],
                 step2 |-> DefaultStep2, step3 |-> DefaultStep3]
    /\ err = "none"
    /\ result = NoResult
    /\ features = <<>>
    /\ i = 0
    /\ model = NoModel
    /\ length = NoFloat
    /\ floor_plane = NoPlane
    /\ roof_plane = NoPlane
    /\ sections_x = <<>>
    /\ section_id = 0
    /\ lc = NoLoadCase
    /\ force = 0
    /\ scia_model = NoModel
    /\ geometry_group = NoGroup
    /\ geometry_group_structure = NoGroup
    /\ scia_analysis = NoAnalysis

Entry(h) ==
    CASE h = "visualize_tunnel" -> "visualize_tunnel"
      [] h = "visualize_tunnel_segment" -> "create_visualization_geometries"
      [] OTHER -> "create_scia_model"

\* The framework calls a view method with the editor's current parameters.
\* The map view reads step1 only.
Invoke ==
    /\ pc = "idle"
    /\ \E h \in Handlers, s1 \in Step1 :
         \E s2 \in (IF h = "visualize_tunnel" THEN {DefaultStep2} ELSE Step2),
            s3 \in (IF h = "visualize_tunnel" THEN {DefaultStep3} ELSE Step3) :
            /\ handler' = h
            /\ params' = [step1 |-> s1, step2 |-> s2, step3 |-> s3]
            /\ pc' = Entry(h)
    /\ UNCHANGED <<err, result, features, i, model, length, floor_plane,
                   roof_plane, sections_x, section_id, lc, force, scia_model,
                   geometry_group, geometry_group_structure, scia_analysis>>

\* The framework takes the result or the exception; nothing of a request
\* outlives it (the controller holds no state).
Respond ==
    /\ pc \in {"done", "failed"}
    /\ pc' = "idle"
    /\ handler' = "none"
    /\ params' = [step1 |-> [geo_polyline |-> None, segments |-> 1],
                  step2 |-> DefaultStep2, step3 |-> DefaultStep3]
    /\ err' = "none"
    /\ result' = NoResult
    /\ features' = <<>>
    /\ i' = 0
    /\ model' = NoModel
    /\ length' = NoFloat
    /\ floor_plane' = NoPlane
    /\ roof_plane' = NoPlane
    /\ sections_x' = <<>>
    /\ section_id' = 0
    /\ lc' = NoLoadCase
    /\ force' = 0
    /\ scia_model' = NoModel
    /\ geometry_group' = NoGroup
    /\ geometry_group_structure' = NoGroup
    /\ scia_analysis' = NoAnalysis

Raise(e) ==
    /\ pc' = "failed"
    /\ err' = e

(***************************************************************************)
(* visualize_tunnel: the map view.                                         *)
(***************************************************************************)
MapPolygon(sub) ==
    [type |-> "MapPolygon", from |-> sub.from, to |-> sub.to,
     left |-> ParallelOffset, right |-> ParallelOffset]

MapPolyline(line) == [type |-> "MapPolyline", points |-> line]

\* Lines 69-70, 147-148, 220-222: the exception that computing the segment
\* length raises, if any (None has no points; a float divided by 0).
\* Mutant: the division by zero goes unnoticed (as with numpy floats).
LengthError_unchecked(p) ==
    IF p.step1.geo_polyline = None THEN "AttributeError" ELSE "none"

LengthError(p) ==
    IF p.step1.geo_polyline = None THEN "AttributeError"
    ELSE IF p.step1.segments = 0 THEN "ZeroDivisionError"
    ELSE "none"

\* line_string.length / params.step1.segments
SegmentLength(p) ==
    RDiv(Rat(LineStringLength(p.step1.geo_polyline)), Rat(p.step1.segments))

\* Lines 64-70: the early return, the line string and the segment length
\* (segment_length is kept in the variable length).
visualize_tunnel_begin ==
    /\ pc = "visualize_tunnel"
    /\ IF params.step1.geo_polyline = None
       THEN /\ result' = [type |-> "MapResult", features |-> <<>>]
            /\ pc' = "done"
            /\ UNCHANGED <<err, length>>
       ELSE IF LengthError(params) # "none"
       THEN /\ Raise(LengthError(params))
            /\ UNCHANGED <<result, length>>
       ELSE /\ length' = SegmentLength(params)
            /\ pc' = "visualize_tunnel_loop"
            /\ UNCHANGED <<err, result>>
    /\ UNCHANGED <<handler, params, features, i, model, floor_plane,
                   roof_plane, sections_x, section_id, lc, force, scia_model,
                   geometry_group, geometry_group_structure, scia_analysis>>

\* Line 72.
SegmentBegin(k, segment_length) == RMul(Rat(k), segment_length)

\* Mutant: i + 1 * segment_length, the brackets forgotten.
SegmentEnd_unbracketed(k, segment_length) == RAdd(Rat(k), segment_length)

\* Line 73.
SegmentEnd(k, segment_length) == RMul(Rat(k + 1), segment_length)

\* Lines 71-79: one iteration of the loop over range(0, segments).
visualize_tunnel_segment_polygon ==
    /\ pc = "visualize_tunnel_loop"
    /\ i < params.step1.segments
    /\ LET begin == SegmentBegin(i, length)
           end == SegmentEnd(i, length)
           line_string_sub ==
               Substring(LineStringLength(params.step1.geo_polyline), begin, end)
       IN  features' = Append(features, MapPolygon(line_string_sub))
    /\ i' = i + 1
    /\ UNCHANGED <<pc, handler, params, err, result, model, length, floor_plane,
                   roof_plane, sections_x, section_id, lc, force, scia_model,
                   geometry_group, geometry_group_structure, scia_analysis>>

\* Lines 81-82: the centre line is added and the features are returned.
visualize_tunnel_return ==
    /\ pc = "visualize_tunnel_loop"
    /\ i >= params.step1.segments
    /\ features' = Append(features, MapPolyline(params.step1.geo_polyline))
    /\ result' = [type |-> "MapResult", features |-> features']
    /\ pc' = "done"
    /\ UNCHANGED <<handler, params, err, i, model, length, floor_plane,
                   roof_plane, sections_x, section_id, lc, force, scia_model,
                   geometry_group, geometry_group_structure, scia_analysis>>

(***************************************************************************)
(* create_scia_model.                                                      *)
(***************************************************************************)
Material == [id |-> 0, name |-> "concrete_slab"]

EmptyModel ==
    [type |-> "Model", nodes |-> <<>>, planes |-> <<>>, subsoils |-> <<>>,
     surface_supports |-> <<>>, load_groups |-> <<>>, load_cases |-> <<>>,
     load_combinations |-> <<>>, surface_loads |-> <<>>]

Node(name, x, y, z) == [name |-> name, x |-> x, y |-> y, z |-> z]

Plane(corner_nodes, thickness, name) ==
    [type |-> "Plane", name |-> name, corner_nodes |-> corner_nodes,
     thickness |-> thickness, material |-> Material]

Half(v) == RDiv(Rat(v), Rat(2))

FloorZ(p) == Half(p.step2.floor_thickness)
RoofZ(p) == RSub(Rat(p.step2.height), Half(p.step2.roof_thickness))

\* Lines 145-154.
create_scia_model_begin ==
    /\ pc = "create_scia_model"
    /\ model' = EmptyModel
    /\ IF LengthError(params) # "none"
       THEN /\ Raise(LengthError(params))
            /\ UNCHANGED length
       ELSE /\ length' = SegmentLength(params)
            /\ pc' = "create_scia_model_floor"
            /\ UNCHANGED err
    /\ UNCHANGED <<handler, params, result, features, i, floor_plane,
                   roof_plane, sections_x, section_id, lc, force, scia_model,
                   geometry_group, geometry_group_structure, scia_analysis>>

SlabNodes(prefix, width, len, z) ==
    << Node(prefix \o "1", Rat(0), Rat(0), z),
       Node(prefix \o "2", Rat(0), len, z),
       Node(prefix \o "3", Rat(width), len, z),
       Node(prefix \o "4", Rat(width), Rat(0), z) >>

\* Lines 156-162.
create_scia_model_floor ==
    /\ pc = "create_scia_model_floor"
    /\ LET floor_nodes ==
               SlabNodes("node_floor_", params.step2.width, length, FloorZ(params))
           plane == Plane(floor_nodes, params.step2.floor_thickness, "floor slab")
       IN  /\ model' = [model EXCEPT !.nodes = @ \o floor_nodes,
                                     !.planes = Append(@, plane)]
           /\ floor_plane' = plane
    /\ pc' = "create_scia_model_roof"
    /\ UNCHANGED <<handler, params, err, result, features, i, length,
                   roof_plane, sections_x, section_id, lc, force, scia_model,
                   geometry_group, geometry_group_structure, scia_analysis>>

\* Lines 164-170.
create_scia_model_roof ==
    /\ pc = "create_scia_model_roof"
    /\ LET roof_nodes ==
               SlabNodes("node_roof_", params.step2.width, length, RoofZ(params))
           plane == Plane(roof_nodes, params.step2.roof_thickness, "roof slab")
       IN  /\ model' = [model EXCEPT !.nodes = @ \o roof_nodes,
                                     !.planes = Append(@, plane)]
           /\ roof_plane' = plane
    /\ pc' = "create_scia_model_sections_x"
    /\ UNCHANGED <<handler, params, err, result, features, i, length,
                   floor_plane, sections_x, section_id, lc, force, scia_model,
                   geometry_group, geometry_group_structure, scia_analysis>>

\* Mutant: one sample too few (the "+ 1" forgotten).
SectionsX_short(p) ==
    Linspace(Half(p.step2.wall_thickness),
             RSub(Rat(p.step2.width), Half(p.step2.wall_thickness)),
             p.step2.number_of_sections)

\* Mutant: the outer walls put on the edges, not half a wall inside them.
SectionsX_edges(p) ==
    Linspace(Rat(0), Rat(p.step2.width), p.step2.number_of_sections + 1)

\* Lines 173, 278, 331: the x-positions of the section walls.
SectionsX(p) ==
    Linspace(Half(p.step2.wall_thickness),
             RSub(Rat(p.step2.width), Half(p.step2.wall_thickness)),
             p.step2.number_of_sections + 1)

\* Line 173; numpy raises ValueError for a negative number of samples.
create_scia_model_sections_x ==
    /\ pc = "create_scia_model_sections_x"
    /\ IF params.step2.number_of_sections + 1 < 0
       THEN /\ Raise("ValueError")
            /\ UNCHANGED sections_x
       ELSE /\ sections_x' = SectionsX(params)
            /\ pc' = "create_scia_model_walls"
            /\ UNCHANGED err
    /\ section_id' = 0
    /\ UNCHANGED <<handler, params, result, features, i, model, length,
                   floor_plane, roof_plane, lc, force, scia_model,
                   geometry_group, geometry_group_structure, scia_analysis>>

\* Mutant: the section id left out of the name.
WallNodeName_noid(id, side, level) ==
    "node_section_wall_" \o side \o "_" \o level

WallNodeName(id, side, level) ==
    "node_section_wall_" \o IntToStr(id) \o "_" \o side \o "_" \o level

WallName(id) == "section_slab_" \o IntToStr(id)

\* Lines 174-187: one iteration of the loop over enumerate(sections_x).
create_scia_model_wall ==
    /\ pc = "create_scia_model_walls"
    /\ section_id < Len(sections_x)
    /\ LET pile_x == sections_x[section_id + 1]
           n_front_bottom ==
               Node(WallNodeName(section_id, "f", "b"), pile_x, Rat(0), FloorZ(params))
           n_front_top ==
               Node(WallNodeName(section_id, "f", "t"), pile_x, Rat(0), RoofZ(params))
           n_back_bottom ==
               Node(WallNodeName(section_id, "b", "b"), pile_x, length, FloorZ(params))
           n_back_top ==
               Node(WallNodeName(section_id, "b", "t"), pile_x, length, RoofZ(params))
           plane ==
               Plane(<<n_front_bottom, n_back_bottom, n_back_top, n_front_top>>,
                     params.step2.wall_thickness, WallName(section_id))
       IN  model' = [model EXCEPT
                        !.nodes = @ \o <<n_front_bottom, n_front_top,
                                         n_back_bottom, n_back_top>>,
                        !.planes = Append(@, plane)]
    /\ section_id' = section_id + 1
    /\ UNCHANGED <<pc, handler, params, err, result, features, i, length,
                   floor_plane, roof_plane, sections_x, lc, force, scia_model,
                   geometry_group, geometry_group_structure, scia_analysis>>

\* Lines 189-191: the subsoil and the surface support.
create_scia_model_support ==
    /\ pc = "create_scia_model_walls"
    /\ section_id >= Len(sections_x)
    /\ LET subsoil == [name |-> "subsoil", stiffness |-> params.step3.soil_stiffness]
       IN  model' = [model EXCEPT
                        !.subsoils = Append(@, subsoil),
                        !.surface_supports =
                            Append(@, [plane |-> floor_plane, subsoil |-> subsoil])]
    /\ pc' = "create_scia_model_loads"
    /\ UNCHANGED <<handler, params, err, result, features, i, length,
                   floor_plane, roof_plane, sections_x, section_id, lc, force,
                   scia_model, geometry_group, geometry_group_structure,
                   scia_analysis>>

\* Lines 193-206: the load group, the load case and the load combination.
create_scia_model_loads ==
    /\ pc = "create_scia_model_loads"
    /\ LET lg == [name |-> "LG1", load_option |-> "VARIABLE",
                  relation |-> "STANDARD", load_type |-> "CAT_G"]
           case == [name |-> "LC1", description |-> "first load case",
                    load_group |-> lg, load_type |-> "STATIC",
                    specification |-> "STANDARD", duration |-> "SHORT"]
           load_cases == {[load_case |-> case, factor |-> 1]}
       IN  /\ lc' = case
           /\ model' = [model EXCEPT
                           !.load_groups = Append(@, lg),
                           !.load_cases = Append(@, case),
                           !.load_combinations =
                               Append(@, [name |-> "C1",
                                          type |-> "ENVELOPE_SERVICEABILITY",
                                          load_cases |-> load_cases])]
    /\ pc' = "create_scia_model_surface_load"
    /\ UNCHANGED <<handler, params, err, result, features, i, length,
                   floor_plane, roof_plane, sections_x, section_id, force,
                   scia_model, geometry_group, geometry_group_structure,
                   scia_analysis>>

\* Lines 208-212 with the conversion factor and the loaded plane left open.
SurfaceLoadStep(factor, plane) ==
    /\ pc = "create_scia_model_surface_load"
    /\ force' = params.step3.roof_load * factor
    /\ model' = [model EXCEPT
                    !.surface_loads =
                        Append(@, [name |-> "SF:1", load_case |-> lc,
                                   plane |-> plane, direction |-> "Z",
                                   load_type |-> "FORCE", load_value |-> force',
                                   c_sys |-> "GLOBAL", location |-> "LENGTH"])]
    /\ pc' = "create_scia_model_return"
    /\ UNCHANGED <<handler, params, err, result, features, i, length,
                   floor_plane, roof_plane, sections_x, section_id, lc,
                   scia_model, geometry_group, geometry_group_structure,
                   scia_analysis>>

\* Mutant: kN -> N without the change of sign.
create_scia_model_surface_load_unsigned == SurfaceLoadStep(1000, roof_plane)

\* Mutant: the load put on the floor slab.
create_scia_model_surface_load_on_floor == SurfaceLoadStep(LoadFactor, floor_plane)

\* Lines 208-212: the roof load, converted from kN to N and pointing down
\* (force = roof_load; force *= -1000 rebinds the local name only).
create_scia_model_surface_load == SurfaceLoadStep(LoadFactor, roof_plane)

\* Line 214, and the caller's assignment at line 93 or 103.
create_scia_model_return ==
    /\ pc = "create_scia_model_return"
    /\ scia_model' = model
    /\ pc' = IF handler = "visualize_tunnel_structure"
             THEN "create_structure_visualization"
             ELSE "execute_scia_analysis"
    /\ UNCHANGED <<handler, params, err, result, features, i, model, length,
                   floor_plane, roof_plane, sections_x, section_id, lc, force,
                   geometry_group, geometry_group_structure, scia_analysis>>

(***************************************************************************)
(* execute_scia_analysis: the PDF view.                                    *)
(***************************************************************************)
WorkerOutcomes == {"success", "timeout", "failure"}

\* Lines 104-108: the XML input, the .esa file and the SciaAnalysis object.
execute_scia_analysis_prepare ==
    /\ pc = "execute_scia_analysis"
    /\ scia_analysis' =
           [type |-> "SciaAnalysis",
            input_file |-> [type |-> "xml", model |-> scia_model],
            xml_def_file |-> "viktor.xml.def",
            scia_model |-> "model.esa",
            result_type |-> "ENGINEERING_REPORT",
            output_document |-> "Report_1",
            executions |-> 0, timeout |-> 0, outcome |-> "none",
            report_fetched |-> FALSE]
    /\ pc' = "execute_scia_analysis_execute"
    /\ UNCHANGED <<handler, params, err, result, features, i, model, length,
                   floor_plane, roof_plane, sections_x, section_id, lc, force,
                   scia_model, geometry_group, geometry_group_structure>>

\* Mutant: a failed or timed-out job is submitted again.
execute_scia_analysis_execute_retry ==
    /\ pc = "execute_scia_analysis_execute"
    /\ \E outcome \in WorkerOutcomes :
         /\ scia_analysis' = [scia_analysis EXCEPT
                                 !.executions = @ + 1,
                                 !.timeout = ExecuteTimeout,
                                 !.outcome = outcome]
         /\ IF outcome = "success"
            THEN /\ pc' = "execute_scia_analysis_report"
                 /\ UNCHANGED err
            ELSE IF scia_analysis.executions < 2
            THEN UNCHANGED <<pc, err>>
            ELSE Raise(IF outcome = "timeout" THEN "TimeoutError"
                       ELSE "ExecutionError")
    /\ UNCHANGED <<handler, params, result, features, i, model, length,
                   floor_plane, roof_plane, sections_x, section_id, lc, force,
                   scia_model, geometry_group, geometry_group_structure>>

\* Line 109: the job is handed to the worker, which answers, fails or does
\* not answer within the timeout; the last two raise.
execute_scia_analysis_execute ==
    /\ pc = "execute_scia_analysis_execute"
    /\ \E outcome \in WorkerOutcomes :
         /\ scia_analysis' = [scia_analysis EXCEPT
                                 !.executions = @ + 1,
                                 !.timeout = ExecuteTimeout,
                                 !.outcome = outcome]
         /\ IF outcome = "success"
            THEN /\ pc' = "execute_scia_analysis_report"
                 /\ UNCHANGED err
            ELSE Raise(IF outcome = "timeout" THEN "TimeoutError"
                       ELSE "ExecutionError")
    /\ UNCHANGED <<handler, params, result, features, i, model, length,
                   floor_plane, roof_plane, sections_x, section_id, lc, force,
                   scia_model, geometry_group, geometry_group_structure>>

\* Lines 110-112: the report is fetched and returned.
execute_scia_analysis_report ==
    /\ pc = "execute_scia_analysis_report"
    /\ scia_analysis' = [scia_analysis EXCEPT !.report_fetched = TRUE]
    /\ result' = [type |-> "PDFResult", file |-> scia_analysis.output_document]
    /\ pc' = "done"
    /\ UNCHANGED <<handler, params, err, features, i, model, length,
                   floor_plane, roof_plane, sections_x, section_id, lc, force,
                   scia_model, geometry_group, geometry_group_structure>>

(***************************************************************************)
(* create_visualization_geometries.                                        *)
(***************************************************************************)
Opacity == IF handler = "visualize_tunnel_structure" THEN <<1, 5>> ELSE <<1, 1>>

\* An Extrusion along the line from (x0, 0, z0) to (x1, 0, z1).
Extrusion(part, x0, z0, x1, z1) ==
    [type |-> "Extrusion", part |-> part, x0 |-> x0, z0 |-> z0,
     x1 |-> x1, z1 |-> z1, opacity |-> Opacity]

\* Lines 219-244.
create_visualization_geometries_begin ==
    /\ pc = "create_visualization_geometries"
    /\ geometry_group' = [type |-> "Group", children |-> <<>>]
    /\ IF LengthError(params) # "none"
       THEN /\ Raise(LengthError(params))
            /\ UNCHANGED length
       ELSE /\ length' = SegmentLength(params)
            /\ pc' = "create_visualization_geometries_slabs"
            /\ UNCHANGED err
    /\ UNCHANGED <<handler, params, result, features, i, model, floor_plane,
                   roof_plane, sections_x, section_id, lc, force, scia_model,
                   geometry_group_structure, scia_analysis>>

\* Lines 246-275: floor, roof, left wall and right wall.
create_visualization_geometries_slabs ==
    /\ pc = "create_visualization_geometries_slabs"
    /\ LET s == params.step2
           floor_slab_obj ==
               Extrusion("floor", Rat(0), Rat(0), Rat(0), Rat(s.floor_thickness))
           roof_slab_obj ==
               Extrusion("roof", Rat(0), Rat(s.height - s.roof_thickness),
                         Rat(0), Rat(s.height))
           wall_slab_left_obj ==
               Extrusion("wall", Rat(0), Rat(s.floor_thickness),
                         Rat(s.wall_thickness), Rat(s.floor_thickness))
           wall_slab_right_obj ==
               Extrusion("wall", Rat(s.width - s.wall_thickness),
                         Rat(s.floor_thickness), Rat(s.width),
                         Rat(s.floor_thickness))
       IN  geometry_group' =
               [geometry_group EXCEPT
                   !.children = @ \o <<floor_slab_obj, roof_slab_obj,
                                       wall_slab_left_obj, wall_slab_right_obj>>]
    /\ pc' = "create_visualization_geometries_sections"
    /\ UNCHANGED <<handler, params, err, result, features, i, model, length,
                   floor_plane, roof_plane, sections_x, section_id, lc, force,
                   scia_model, geometry_group_structure, scia_analysis>>

\* sections_x[1:-1]
Interior(xs) == SubSeq(xs, 2, Len(xs) - 1)

SectionWallSolids(p) ==
    LET xs == Interior(SectionsX(p))
    IN  [k \in 1 .. Len(xs) |->
            Extrusion("wall",
                      RSub(xs[k], Half(p.step2.wall_thickness)),
                      Rat(p.step2.floor_thickness),
                      RAdd(xs[k], Half(p.step2.wall_thickness)),
                      Rat(p.step2.floor_thickness))]

\* Lines 277-291, and the caller's line 88 or 95.
create_visualization_geometries_sections ==
    /\ pc = "create_visualization_geometries_sections"
    /\ IF params.step2.number_of_sections + 1 < 0
       THEN /\ Raise("ValueError")
            /\ UNCHANGED <<geometry_group, result>>
       ELSE /\ geometry_group' =
                   [geometry_group EXCEPT
                       !.children = @ \o SectionWallSolids(params)]
            /\ IF handler = "visualize_tunnel_segment"
               THEN /\ result' = [type |-> "GeometryResult",
                                  geometry |-> geometry_group']
                    /\ pc' = "done"
               ELSE /\ pc' = "visualize_tunnel_structure_merge"
                    /\ UNCHANGED result
            /\ UNCHANGED err
    /\ UNCHANGED <<handler, params, features, i, model, length, floor_plane,
                   roof_plane, sections_x, section_id, lc, force, scia_model,
                   geometry_group_structure, scia_analysis>>

(***************************************************************************)
(* create_structure_visualization and visualize_tunnel_structure.          *)
(***************************************************************************)
Sphere(node) ==
    [type |-> "Sphere", x |-> node.x, y |-> node.y, z |-> node.z,
     radius |-> <<1, 2>>]

CircularExtrusion(part, x) == [type |-> "CircularExtrusion", part |-> part, x |-> x]

SlabLines(z) ==
    << CircularExtrusion("front", z), CircularExtrusion("right", z),
       CircularExtrusion("back", z), CircularExtrusion("left", z) >>

RECURSIVE SectionLines(_)
SectionLines(xs) ==
    IF xs = <<>> THEN <<>>
    ELSE << CircularExtrusion("front", Head(xs)), CircularExtrusion("back", Head(xs)),
            CircularExtrusion("bottom", Head(xs)), CircularExtrusion("top", Head(xs)) >>
         \o SectionLines(Tail(xs))

\* Lines 294-349 (called at line 94): a sphere per node, the outlines of
\* floor and roof, and the outline of every section wall.
create_structure_visualization ==
    /\ pc = "create_structure_visualization"
    /\ geometry_group_structure' =
           [type |-> "Group",
            children |->
                [k \in 1 .. Len(scia_model.nodes) |-> Sphere(scia_model.nodes[k])]
                \o SlabLines(FloorZ(params)) \o SlabLines(RoofZ(params))
                \o SectionLines(SectionsX(params))]
    /\ pc' = "create_visualization_geometries"
    /\ UNCHANGED <<handler, params, err, result, features, i, model, length,
                   floor_plane, roof_plane, sections_x, section_id, lc, force,
                   scia_model, geometry_group, scia_analysis>>

\* Lines 96-98: the translucent solids are added to the structure's group.
visualize_tunnel_structure_merge ==
    /\ pc = "visualize_tunnel_structure_merge"
    /\ geometry_group_structure' =
           [geometry_group_structure EXCEPT
               !.children = @ \o geometry_group.children]
    /\ result' = [type |-> "GeometryResult", geometry |-> geometry_group_structure']
    /\ pc' = "done"
    /\ UNCHANGED <<handler, params, err, features, i, model, length,
                   floor_plane, roof_plane, sections_x, section_id, lc, force,
                   scia_model, geometry_group, scia_analysis>>

(***************************************************************************)
(* The specification.                                                      *)
(***************************************************************************)
Next ==
    \/ Invoke
    \/ Respond
    \/ visualize_tunnel_begin
    \/ visualize_tunnel_segment_polygon
    \/ visualize_tunnel_return
    \/ create_scia_model_begin
    \/ create_scia_model_floor
    \/ create_scia_model_roof
    \/ create_scia_model_sections_x
    \/ create_scia_model_wall
    \/ create_scia_model_support
    \/ create_scia_model_loads
    \/ create_scia_model_surface_load
    \/ create_scia_model_return
    \/ execute_scia_analysis_prepare
    \/ execute_scia_analysis_execute
    \/ execute_scia_analysis_report
    \/ create_visualization_geometries_begin
    \/ create_visualization_geometries_slabs
    \/ create_visualization_geometries_sections
    \/ create_structure_visualization
    \/ visualize_tunnel_structure_merge

Spec == Init /\ [][Next]_vars

(***************************************************************************)
(* Properties.                                                             *)
(***************************************************************************)
Range(f) == {f[k] : k \in DOMAIN f}

RECURSIVE RSum(_)
RSum(xs) == IF xs = <<>> THEN Rat(0) ELSE RAdd(Head(xs), RSum(Tail(xs)))

BuildsModel == handler \in {"visualize_tunnel_structure", "execute_scia_analysis"}

\* create_scia_model has returned its model to the caller.
Returned == scia_model # NoModel

ValidCrossSection(p) ==
    /\ p.step2.width > 0
    /\ p.step2.height > 0
    /\ p.step2.floor_thickness > 0
    /\ p.step2.roof_thickness > 0
    /\ p.step2.wall_thickness > 0
    /\ p.step2.number_of_sections >= 1

\* C1: for valid cross-section parameters the returned model has exactly
\* 4 + 4 + 4*(number_of_sections+1) nodes and 2 + (number_of_sections+1)
\* planar elements (the floor slab, the roof slab and one wall slab per
\* section position), and every planar element references exactly 4 nodes
\* of that model.
C1_ModelSize ==
    (Returned /\ ValidCrossSection(params)) =>
        LET n == params.step2.number_of_sections
            planes == scia_model.planes
        IN  /\ Len(scia_model.nodes) = 4 + 4 + 4 * (n + 1)
            /\ Len(planes) = 2 + (n + 1)
            /\ planes[1].name = "floor slab"
            /\ planes[2].name = "roof slab"
            /\ \A k \in 1 .. n + 1 :
                 /\ planes[2 + k].name = WallName(k - 1)
                 /\ planes[2 + k].corner_nodes[1].x = sections_x[k]
            /\ \A k \in DOMAIN planes :
                 /\ Len(planes[k].corner_nodes) = 4
                 /\ Cardinality(Range(planes[k].corner_nodes)) = 4
                 /\ Range(planes[k].corner_nodes) \subseteq Range(scia_model.nodes)

C1_Witness ==
    /\ Returned
    /\ ValidCrossSection(params)
    /\ params.step2.number_of_sections = 3
    /\ Len(scia_model.nodes) = 24
    /\ Len(scia_model.planes) = 6

\* C2: invalid parameters (a non-positive thickness, width or height, or
\* number_of_sections < 1) make create_scia_model fail with
\* InvalidParameterError before any node or planar element is created, and
\* no model is returned.
C2_InvalidParametersRejected ==
    (/\ BuildsModel
     /\ LengthError(params) = "none"
     /\ ~ValidCrossSection(params)
     /\ (Returned \/ pc = "failed")) =>
        /\ pc = "failed"
        /\ err = "InvalidParameterError"
        /\ model.nodes = <<>>
        /\ model.planes = <<>>
        /\ ~Returned

\* What the code does with such parameters: a model is built and returned.
C2_InvalidModelReturned ==
    /\ Returned
    /\ ~ValidCrossSection(params)
    /\ Len(scia_model.nodes) >= 8

NothingProduced ==
    /\ features = <<>>
    /\ result = NoResult
    /\ ~Returned
    /\ model # NoModel => (model.nodes = <<>> /\ model.planes = <<>>)
    /\ geometry_group # NoGroup => geometry_group.children = <<>>
    /\ geometry_group_structure = NoGroup

ZeroSegments ==
    /\ params.step1.geo_polyline # None
    /\ params.step1.segments = 0
    /\ pc \notin {"visualize_tunnel", "create_scia_model",
                  "create_visualization_geometries"}

C4_SegmentPartition ==
    (handler = "visualize_tunnel" /\ pc = "done"
     /\ params.step1.geo_polyline # None) =>
        LET n == params.step1.segments
            L == LineStringLength(params.step1.geo_polyline)
            polygons == SubSeq(features, 1, Len(features) - 1)
        IN  /\ n >= 1
            /\ Len(polygons) = n
            /\ features[n + 1].type = "MapPolyline"
            /\ result = [type |-> "MapResult", features |-> features]
            /\ \A k \in 1 .. n :
                 /\ polygons[k].type = "MapPolygon"
                 /\ polygons[k].from = Norm((k - 1) * L, n)
                 /\ polygons[k].to = Norm(k * L, n)
                 /\ RLt(polygons[k].from, polygons[k].to)
            /\ \A k \in 1 .. n - 1 : polygons[k].to = polygons[k + 1].from
            /\ polygons[1].from = Rat(0)
            /\ polygons[n].to = Rat(L)
            /\ RSum([k \in 1 .. n |-> RSub(polygons[k].to, polygons[k].from)])
                   = Rat(L)

\* Length 100 in 4 segments: 25 each.
C4_Witness ==
    /\ handler = "visualize_tunnel"
    /\ pc = "done"
    /\ LineStringLength(params.step1.geo_polyline) = 100
    /\ params.step1.segments = 4
    /\ Len(features) = 5
    /\ \A k \in 1 .. 4 : RSub(features[k].to, features[k].from) = Rat(25)

\* C5: in a returned model with number_of_sections >= 1 no two nodes share
\* a name and no two planar elements share a name.
C5_UniqueNames ==
    (Returned /\ params.step2.number_of_sections >= 1) =>
        /\ \A a, b \in DOMAIN scia_model.nodes :
             a # b => scia_model.nodes[a].name # scia_model.nodes[b].name
        /\ \A a, b \in DOMAIN scia_model.planes :
             a # b => scia_model.planes[a].name # scia_model.planes[b].name

C5_Witness ==
    /\ Returned
    /\ params.step2.number_of_sections = 3
    /\ Cardinality({scia_model.nodes[k].name : k \in DOMAIN scia_model.nodes}) = 24
    /\ Cardinality({scia_model.planes[k].name : k \in DOMAIN scia_model.planes}) = 6

\* line 173 has been executed in this request
SectionsComputed == BuildsModel /\ (pc = "create_scia_model_walls" \/ Returned)

EvenlySpaced ==
    LET n == params.step2.number_of_sections
        w == params.step2.width
        t == params.step2.wall_thickness
    IN  /\ Len(sections_x) = n + 1
        /\ n >= 0 => sections_x[1] = Norm(t, 2)
        /\ n >= 1 => sections_x[n + 1] = Norm(2 * w - t, 2)
        /\ \A k \in 1 .. n :
             RSub(sections_x[k + 1], sections_x[k]) = Norm(w - t, n)

\* C6 as stated: the section x-positions are number_of_sections + 1 values,
\* the first wall_thickness/2, the last width - wall_thickness/2, strictly
\* increasing with the constant step (width - wall_thickness) /
\* number_of_sections.
C6_StrictlyIncreasing ==
    (SectionsComputed /\ params.step2.number_of_sections >= 1) =>
        /\ EvenlySpaced
        /\ \A k \in 1 .. Len(sections_x) - 1 :
             RLt(sections_x[k], sections_x[k + 1])

\* C6 as amended: the section x-positions are number_of_sections + 1
\* values, the first wall_thickness/2; for number_of_sections >= 1 the last
\* is width - wall_thickness/2 and neighbours differ by the constant step
\* (width - wall_thickness) / number_of_sections, so they are strictly
\* increasing exactly when width > wall_thickness (equal when width =
\* wall_thickness, decreasing when width < wall_thickness).
C6_EvenlySpaced ==
    SectionsComputed =>
        /\ EvenlySpaced
        /\ \A k \in 1 .. Len(sections_x) - 1 :
             /\ RLt(sections_x[k], sections_x[k + 1])
                    <=> params.step2.width > params.step2.wall_thickness
             /\ sections_x[k] = sections_x[k + 1]
                    <=> params.step2.width = params.step2.wall_thickness

\* width = 10, wall_thickness = 1, number_of_sections = 2: 0.5, 5.0, 9.5.
C6_Witness ==
    /\ SectionsComputed
    /\ params.step2.width = 10
    /\ params.step2.wall_thickness = 1
    /\ params.step2.number_of_sections = 2
    /\ sections_x = << <<1, 2>>, <<5, 1>>, <<19, 2>> >>

\* C7: the one surface load of a returned model has the force
\* roof_load * -1000, and the step that converts it leaves the request's
\* parameters as they were.
C7_RoofLoadConversion ==
    /\ [](Returned =>
            /\ Len(scia_model.surface_loads) = 1
            /\ scia_model.surface_loads[1].load_value
                   = params.step3.roof_load * (-1000)
            /\ force = scia_model.surface_loads[1].load_value)
    /\ [][pc = "create_scia_model_surface_load" => params' = params]_vars

\* roof_load = 5 gives -5000.
C7_Witness ==
    /\ Returned
    /\ params.step3.roof_load = 5
    /\ scia_model.surface_loads[1].load_value = -5000

\* C8: execute_scia_analysis submits the job at most once, with timeout
\* 600 and only after the model was built and its XML generated; a timeout
\* or failure of the worker ends the request failed, with no result and no
\* report fetched; the report is fetched and returned only after a
\* successful execution, and a finished request has submitted exactly once.
C8_SingleSubmission ==
    scia_analysis # NoAnalysis =>
        /\ handler = "execute_scia_analysis"
        /\ Returned
        /\ scia_analysis.input_file = [type |-> "xml", model |-> scia_model]
        /\ scia_analysis.executions \in {0, 1}
        /\ scia_analysis.executions = 1 <=> scia_analysis.outcome # "none"
        /\ scia_analysis.executions = 1 => scia_analysis.timeout = 600
        /\ scia_analysis.outcome \in {"timeout", "failure"} =>
             /\ pc = "failed"
             /\ err = (IF scia_analysis.outcome = "timeout"
                       THEN "TimeoutError" ELSE "ExecutionError")
             /\ result = NoResult
             /\ ~scia_analysis.report_fetched
        /\ scia_analysis.report_fetched => scia_analysis.outcome = "success"
        /\ result # NoResult =>
             /\ result.type = "PDFResult"
             /\ scia_analysis.report_fetched
        /\ pc = "done" =>
             (scia_analysis.executions = 1 /\ result.type = "PDFResult")

C8_Witness ==
    /\ scia_analysis # NoAnalysis
    /\ scia_analysis.outcome = "timeout"
    /\ scia_analysis.executions = 1
    /\ pc = "failed"

\* C9: a returned model has exactly one subsoil support, bound to the floor
\* slab; one load group; one load case, of that group; one load
\* combination, holding just that load case with factor 1; and one surface
\* load, of that load case, on the roof slab in the Z direction.
C9_SupportAndLoads ==
    Returned =>
        LET m == scia_model
        IN  /\ Len(m.subsoils) = 1
            /\ Len(m.surface_supports) = 1
            /\ m.surface_supports[1].plane = m.planes[1]
            /\ m.surface_supports[1].plane.name = "floor slab"
            /\ m.surface_supports[1].subsoil = m.subsoils[1]
            /\ m.subsoils[1].stiffness = params.step3.soil_stiffness
            /\ Len(m.load_groups) = 1
            /\ Len(m.load_cases) = 1
            /\ m.load_cases[1].load_group = m.load_groups[1]
            /\ Len(m.load_combinations) = 1
            /\ m.load_combinations[1].load_cases
                   = {[load_case |-> m.load_cases[1], factor |-> 1]}
            /\ Len(m.surface_loads) = 1
            /\ m.surface_loads[1].load_case = m.load_cases[1]
            /\ m.surface_loads[1].plane = m.planes[2]
            /\ m.surface_loads[1].plane.name = "roof slab"
            /\ m.surface_loads[1].direction = "Z"

C9_Witness ==
    /\ Returned
    /\ pc = "done"
    /\ scia_model.surface_supports[1].plane.name = "floor slab"
    /\ scia_model.surface_loads[1].plane.name = "roof slab"

IsWallSolid(e) == e.part = "wall"

\* The wall solids in the order of their positions: left, interior, right.
WallSolids ==
    LET ws == SelectSeq(geometry_group.children, IsWallSolid)
    IN  <<ws[1]>> \o SubSeq(ws, 3, Len(ws)) \o <<ws[2]>>

WallsAgree ==
    LET walls == SubSeq(scia_model.planes, 3, Len(scia_model.planes))
        t == Half(params.step2.wall_thickness)
    IN  /\ Len(WallSolids) = Len(walls)
        /\ Len(walls) = params.step2.number_of_sections + 1
        /\ \A k \in DOMAIN walls :
             LET p == walls[k].corner_nodes[1].x
             IN  /\ p = SectionsX(params)[k]
                 /\ WallSolids[k].x0 = RSub(p, t)
                 /\ WallSolids[k].x1 = RAdd(p, t)

\* C10: for every number_of_sections that create_scia_model accepts, the
\* wall solids of create_visualization_geometries are as many as the
\* structural wall elements, and each spans wall_thickness/2 to either side
\* of one structural wall position (left wall the first, right wall the
\* last).
C10_WallsAgree ==
    (handler = "visualize_tunnel_structure" /\ pc = "done") => WallsAgree

\* The agreement does hold for number_of_sections >= 1.
WallsAgreeFromOneSection ==
    (handler = "visualize_tunnel_structure" /\ pc = "done"
     /\ params.step2.number_of_sections >= 1) => WallsAgree

WallsAgreeReached ==
    /\ handler = "visualize_tunnel_structure"
    /\ pc = "done"
    /\ params.step2.number_of_sections = 3
    /\ WallsAgree

====
